---- MODULE Spec2Model ----
(***************************************************************************)
(* A model of src/index.ts: a Hono HTTP server exposing CRUD operations    *)
(* over the tables posts and drafts, with one database connection opened   *)
(* and closed per request by a middleware, and the slugify routine used    *)
(* to derive a row's slug from its title.                                  *)
(***************************************************************************)
EXTENDS Integers, Sequences, FiniteSets

(***************************************************************************)
(* Bounds of the model.                                                    *)
(***************************************************************************)
\* Longest input string given to slugify in SlugSpec.
MaxLen == 5
\* Most rows a table holds: an INSERT into a full table is rejected.
MaxRows == 2
\* Most requests the server receives in one behaviour of Spec.
MaxArrivals == 3
\* Most requests the server receives in one behaviour of FairSpec.
MaxFairArrivals == 2

(***************************************************************************)
(* Strings are sequences of one-character strings.  The alphabet holds one *)
(* or more characters of every class slugify tells apart: an upper-case    *)
(* letter, a lower-case letter, a digit, the underscore, the hyphen, a     *)
(* whitespace character and a non-word character.                          *)
(***************************************************************************)
Alphabet == {"A", "a", "1", "_", "-", " ", "!"}

\* \s of the regular expressions, and the characters String.trim removes.
IsSpace(ch) == ch = " "

\* \w of the regular expressions: [A-Za-z0-9_].
IsWord(ch) == ch \in {"A", "a", "1", "_"}

\* One character of String.toLowerCase.
LowerChar(ch) == IF ch = "A" THEN "a" ELSE ch

\* The values a title can take in JavaScript: undefined, null or a string.
JSUndefined == [t |-> "undefined", s |-> <<>>]
JSNull == [t |-> "null", s |-> <<>>]
JSString(s) == [t |-> "string", s |-> s]

\* !str of line 47: undefined, null and the empty string are falsy.
IsFalsy(v) == v.t \in {"undefined", "null"} \/ v.s = <<>>

RECURSIVE DropWhile(_, _)
\* s without its longest prefix of characters equal to ch.
DropWhile(s, ch) ==
  IF s # <<>> /\ Head(s) = ch THEN DropWhile(Tail(s), ch) ELSE s

\* String.prototype.trim (line 53).
trim(s) ==
  LET keep == {i \in 1..Len(s) : ~IsSpace(s[i])}
      lo == CHOOSE i \in keep : \A j \in keep : i <= j
      hi == CHOOSE i \in keep : \A j \in keep : j <= i
  IN IF keep = {} THEN <<>> ELSE SubSeq(s, lo, hi)

RECURSIVE toLowerCase(_)
\* String.prototype.toLowerCase (line 54).
toLowerCase(s) ==
  IF s = <<>> THEN <<>> ELSE <<LowerChar(Head(s))>> \o toLowerCase(Tail(s))

RECURSIVE replaceSpaces(_)
\* .replace(/\s+/g, '-') (line 55): every run of whitespace becomes one hyphen.
replaceSpaces(s) ==
  IF s = <<>> THEN <<>>
  ELSE IF IsSpace(Head(s))
       THEN <<"-">> \o replaceSpaces(DropWhile(Tail(s), " "))
       ELSE <<Head(s)>> \o replaceSpaces(Tail(s))

\* .replace(/[^\w\-]+/g, '') (line 56): only word characters and hyphens stay.
IsKept(ch) == IsWord(ch) \/ ch = "-"
removeNonWord(s) == SelectSeq(s, IsKept)

RECURSIVE collapseHyphens(_)
\* .replace(/\-\-+/g, '-') (line 57): a run of two or more hyphens becomes one.
collapseHyphens(s) ==
  IF s = <<>> THEN <<>>
  ELSE IF Head(s) = "-"
       THEN <<"-">> \o collapseHyphens(DropWhile(Tail(s), "-"))
       ELSE <<Head(s)>> \o collapseHyphens(Tail(s))

\* .replace(/^-+/, '') (line 58).
trimStart(s) == DropWhile(s, "-")

\* .replace(/-+$/, '') (line 59).
trimEnd(s) ==
  LET keep == {i \in 1..Len(s) : s[i] # "-"}
      hi == CHOOSE i \in keep : \A j \in keep : j <= i
  IN IF keep = {} THEN <<>> ELSE SubSeq(s, 1, hi)

\* Mutant of slugify: the hyphen runs are collapsed before the non-word
\* characters are removed (lines 56 and 57 swapped).
slugify_collapseFirst(v) ==
  IF IsFalsy(v) THEN <<>>
  ELSE trimEnd(trimStart(removeNonWord(collapseHyphens(
         replaceSpaces(toLowerCase(trim(v.s)))))))

\* Mutant of slugify: the trailing hyphens are not stripped (line 59 missing).
slugify_noTrimEnd(v) ==
  IF IsFalsy(v) THEN <<>>
  ELSE trimStart(collapseHyphens(removeNonWord(
         replaceSpaces(toLowerCase(trim(v.s))))))

\* slugify (lines 46-60); the result is a string.
slugify(v) ==
  IF IsFalsy(v) THEN <<>>
  ELSE trimEnd(trimStart(collapseHyphens(removeNonWord(
         replaceSpaces(toLowerCase(trim(v.s)))))))

\* The strings of at most n characters.
StringsUpTo(n) == UNION {[1..k -> Alphabet] : k \in 0..n}

\* The inputs of slugify in SlugSpec.
SlugInputs == {JSUndefined, JSNull} \cup {JSString(s) : s \in StringsUpTo(MaxLen)}

(***************************************************************************)
(* The database: the tables posts and drafts.  A table is the sequence of  *)
(* its rows in the order of their created_date, which the database sets    *)
(* when the row is inserted: the last row is the newest.                   *)
(***************************************************************************)
Tables == {"posts", "drafts"}

\* The titles and contents the request bodies carry.
Title1 == JSString(<<"A", " ", "a">>)
Title2 == JSString(<<"1">>)

\* The body of a request as lines 88 and 106-107 see it: an object with
\* title and content, or "invalid" when `await c.req.json()` throws (the body
\* is no JSON) or destructuring its value throws (the body is JSON null).
NoBody == [json |-> "none", title |-> JSUndefined, content |-> ""]
InvalidJson == [json |-> "invalid", title |-> JSUndefined, content |-> ""]
ObjectBodies ==
  { [json |-> "object", title |-> Title1, content |-> "c1"],
    [json |-> "object", title |-> Title2, content |-> "c2"] }
Bodies == ObjectBodies \cup {InvalidJson}

\* slugify on the titles of the bodies, computed once.
SlugOfTitle == [v \in {b.title : b \in Bodies} |-> slugify(v)]

\* The slugs the request paths carry.
PathSlugs == {SlugOfTitle[b.title] : b \in ObjectBodies}

\* The requests: the eight routes, and a path no route matches.
\* The resource a path names: /api/posts, /api/drafts, or a path of no route.
Resources == {"posts", "drafts"}
NoRequest == [method |-> "NONE", resource |-> "none", slug |-> <<>>, body |-> NoBody]
RequestsIn ==
  { [method |-> "GET", resource |-> rs, slug |-> <<>>, body |-> NoBody] :
      rs \in Resources \cup {"other"} }
  \cup { [method |-> "POST", resource |-> rs, slug |-> <<>>, body |-> b] :
           rs \in Resources, b \in Bodies }
  \cup { [method |-> "PUT", resource |-> rs, slug |-> s, body |-> b] :
           rs \in Resources, s \in PathSlugs, b \in Bodies }
  \cup { [method |-> "DELETE", resource |-> rs, slug |-> s, body |-> NoBody] :
           rs \in Resources, s \in PathSlugs }

\* The requests in flight at once: each is one asynchronous task.
Tasks == {"t1", "t2"}

(***************************************************************************)
(* Responses.                                                              *)
(***************************************************************************)
Response(status, kind, rows, text, slug) ==
  [status |-> status, kind |-> kind, rows |-> rows, text |-> text, slug |-> slug]

\* No Response object: the handler returned undefined, or none ran yet.
NoResponse == Response(0, "none", <<>>, "", <<>>)
\* Hono's default error handler, kept by `new Hono()` (line 17).
InternalServerError == Response(500, "text", <<>>, "Internal Server Error", <<>>)
\* Hono's default response for a path no route matches.
NotFound == Response(404, "text", <<>>, "404 Not Found", <<>>)

(***************************************************************************)
(* The SQL statements: the table after the statement, and result.rows.     *)
(***************************************************************************)
Reverse(s) == [i \in 1..Len(s) |-> s[Len(s) + 1 - i]]

\* SELECT * FROM <table> ORDER BY created_date DESC
SelectAll(t) == Reverse(t)

\* INSERT INTO <table> (slug, title, content) VALUES ($1, $2, $3) RETURNING *
InsertRow(t, slug, title, content) ==
  Append(t, [slug |-> slug, title |-> title, content |-> content])

\* UPDATE <table> SET title = $1, content = $2 WHERE slug = $3 RETURNING *
UpdateRows(t, title, content, slug) ==
  [i \in 1..Len(t) |->
     IF t[i].slug = slug
     THEN [t[i] EXCEPT !.title = title, !.content = content]
     ELSE t[i]]

\* DELETE FROM <table> WHERE slug = $1 RETURNING *
DeleteRows(t, slug) == LET Stays(row) == row.slug # slug IN SelectSeq(t, Stays)

\* The rows a WHERE slug = $n clause matches.
Matching(t, slug) == LET Hit(row) == row.slug = slug IN SelectSeq(t, Hit)

VARIABLES
  db,         \* the rows of each table
  pc,         \* where each task stands: idle, handler, release, done
  req,        \* the request each task handles
  dbClient,   \* the task's connection: none, connectRejected, open, ended, endRejected
  queries,    \* how many SQL statements the task has issued on its connection
  handlerRes, \* the Response the route handler returned
  res,        \* c.res, and once the task is done the response the client gets
  arrivals,   \* how many requests have arrived
  limit,      \* how many requests arrive at most in this behaviour
  deleted,    \* per table, the slugs deleted and not created again since
  slugIn,    \* the argument of the slugify call under study
  slugOnce,  \* slugify(slugIn), once computed
  slugTwice, \* slugify(slugify(slugIn)), once computed
  slugStage  \* "off", "in", "once", "twice"

serverVars ==
  <<db, pc, req, dbClient, queries, handlerRes, res, arrivals, limit, deleted>>

slugVars == <<slugIn, slugOnce, slugTwice, slugStage>>

vars == <<serverVars, slugVars>>

(***************************************************************************)
(* The server.  Every request runs as one asynchronous task, which is      *)
(* suspended at each await: the steps of different tasks interleave.       *)
(***************************************************************************)
InitServer(n) ==
  /\ limit = n
  /\ db = [tb \in Tables |-> <<>>]
  /\ pc = [r \in Tasks |-> "idle"]
  /\ req = [r \in Tasks |-> NoRequest]
  /\ dbClient = [r \in Tasks |-> "none"]
  /\ queries = [r \in Tasks |-> 0]
  /\ handlerRes = [r \in Tasks |-> NoResponse]
  /\ res = [r \in Tasks |-> NoResponse]
  /\ arrivals = 0
  /\ deleted = [tb \in Tables |-> {}]
  /\ slugIn = JSUndefined
  /\ slugOnce = <<>>
  /\ slugTwice = <<>>
  /\ slugStage = "off"

Init == InitServer(MaxArrivals)

\* A request arrives at an idle task: its request-scoped state is fresh.
Arrive(r, q) ==
  /\ pc[r] \in {"idle", "done"}
  /\ arrivals < limit
  /\ arrivals' = arrivals + 1
  /\ req' = [req EXCEPT ![r] = q]
  /\ queries' = [queries EXCEPT ![r] = 0]
  /\ handlerRes' = [handlerRes EXCEPT ![r] = NoResponse]

\* connectToDB (lines 23-38): a new client, connected, or the rejection of
\* client.connect() (or the exception of readFileSync).
connectToDB(r) ==
  \/ dbClient' = [dbClient EXCEPT ![r] = "open"]
  \/ dbClient' = [dbClient EXCEPT ![r] = "connectRejected"]

\* disconnectFromDB (lines 41-43): client.end(), which resolves or rejects.
disconnectFromDB(r) ==
  \/ dbClient' = [dbClient EXCEPT ![r] = "ended"]
  \/ dbClient' = [dbClient EXCEPT ![r] = "endRejected"]

\* Mutant of middlewareAcquire: the handler runs although connectToDB failed.
middlewareAcquire_ignoreFailure(r) ==
  /\ \E q \in RequestsIn : Arrive(r, q)
  /\ connectToDB(r)
  /\ pc' = [pc EXCEPT ![r] = "handler"]
  /\ res' = [res EXCEPT ![r] = NoResponse]
  /\ UNCHANGED <<db, limit, deleted, slugVars>>

\* A request arrives and the database middleware runs up to `await next()`
\* (lines 63-66).  When connectToDB throws, the middleware throws before
\* next(): Hono's compose catches the error and its default error handler
\* answers 500.
middlewareAcquire(r) ==
  /\ \E q \in RequestsIn : Arrive(r, q)
  /\ connectToDB(r)
  /\ IF dbClient'[r] = "open"
     THEN /\ pc' = [pc EXCEPT ![r] = "handler"]
          /\ res' = [res EXCEPT ![r] = NoResponse]
     ELSE /\ pc' = [pc EXCEPT ![r] = "done"]
          /\ res' = [res EXCEPT ![r] = InternalServerError]
  /\ UNCHANGED <<db, limit, deleted, slugVars>>

\* Mutant of middlewareRelease: the connection is closed only after a handler
\* that returned a Response (no finally-like release after a failure).
middlewareRelease_leak(r) ==
  /\ pc[r] = "release"
  /\ pc' = [pc EXCEPT ![r] = "done"]
  /\ IF handlerRes[r] = NoResponse
     THEN /\ dbClient' = dbClient
          /\ res' = [res EXCEPT ![r] = InternalServerError]
     ELSE /\ disconnectFromDB(r)
          /\ res' = [res EXCEPT ![r] =
                       IF dbClient'[r] = "endRejected" THEN InternalServerError ELSE @]
  /\ UNCHANGED <<db, req, queries, handlerRes, arrivals, limit, deleted, slugVars>>

\* The database middleware after `await next()` (lines 66-68), and the end of
\* Hono's dispatch.  next() has resolved whatever the handler did.  When
\* disconnectFromDB throws, the middleware throws: Hono's compose catches the
\* error and puts its default error handler's 500 in c.res, over the
\* handler's Response.  When no Response was returned at all (c.status(500)
\* returns undefined), the context is not finalized and Hono answers 500.
middlewareRelease(r) ==
  /\ pc[r] = "release"
  /\ disconnectFromDB(r)
  /\ pc' = [pc EXCEPT ![r] = "done"]
  /\ res' = [res EXCEPT ![r] =
               IF dbClient'[r] = "endRejected" \/ @ = NoResponse
               THEN InternalServerError
               ELSE @]
  /\ UNCHANGED <<db, req, queries, handlerRes, arrivals, limit, deleted, slugVars>>

\* A route handler of task r returns `response` after issuing n statements.
Returns(r, response, n) ==
  /\ pc' = [pc EXCEPT ![r] = "release"]
  /\ handlerRes' = [handlerRes EXCEPT ![r] = response]
  /\ res' = [res EXCEPT ![r] = response]
  /\ queries' = [queries EXCEPT ![r] = @ + n]
  /\ UNCHANGED <<req, dbClient, arrivals, limit, slugVars>>

\* The route `method` /api/<resource> matches task r's request.
Routed(r, method, resource) ==
  /\ pc[r] = "handler"
  /\ req[r].method = method
  /\ req[r].resource = resource

\* GET /api/<resource>: the rows of `table`, newest first; a query error is caught and the
\* handler returns c.status(500), which is undefined.
listHandler(r, resource, table) ==
  /\ Routed(r, "GET", resource)
  /\ UNCHANGED <<db, deleted>>
  /\ \/ Returns(r, Response(200, "rows", SelectAll(db[table]), "", <<>>), 1)
     \/ Returns(r, NoResponse, 1)

\* POST /api/<resource>: the body is parsed, the slug computed from the title
\* and the row inserted; any error is caught and the handler returns
\* c.status(500), which is undefined.
createHandler(r, resource, table) ==
  LET body == req[r].body
      slug == SlugOfTitle[body.title]
      after == InsertRow(db[table], slug, body.title, body.content)
  IN /\ Routed(r, "POST", resource)
     /\ \/ /\ body.json # "object"
           /\ UNCHANGED <<db, deleted>>
           /\ Returns(r, NoResponse, 0)
        \/ /\ body.json = "object"
           /\ Len(db[table]) < MaxRows
           /\ db' = [db EXCEPT ![table] = after]
           /\ deleted' = [deleted EXCEPT ![table] = @ \ {slug}]
           /\ Returns(r, Response(201, "row", <<after[Len(after)]>>, "", <<>>), 1)
        \/ /\ body.json = "object"
           /\ UNCHANGED <<db, deleted>>
           /\ Returns(r, NoResponse, 1)

\* PUT /api/<resource>/:slug: the body is parsed and the rows of that slug get
\* its title and content; 404 when result.rows is empty, 201 with
\* result.rows[0] otherwise, 500 with the error's message for a caught error.
\* `after` is the table once the UPDATE statement has run.
updateHandler(r, resource, table, notFound, failed, after) ==
  LET body == req[r].body
      slug == req[r].slug
      rows == Matching(after, slug)
  IN /\ Routed(r, "PUT", resource)
     /\ UNCHANGED deleted
     /\ \/ /\ body.json # "object"
           /\ UNCHANGED db
           /\ Returns(r, Response(500, "errorMessage", <<>>, failed, <<>>), 0)
        \/ /\ body.json = "object"
           /\ db' = [db EXCEPT ![table] = after]
           /\ IF rows = <<>>
              THEN Returns(r, Response(404, "error", <<>>, notFound, <<>>), 1)
              ELSE Returns(r, Response(201, "row", <<rows[1]>>, "", <<>>), 1)
        \/ /\ body.json = "object"
           /\ UNCHANGED db
           /\ Returns(r, Response(500, "errorMessage", <<>>, failed, <<>>), 1)

\* DELETE /api/<resource>/:slug: the rows of that slug are deleted; 404 when
\* result.rows is empty, 201 with a message naming the slug otherwise, 500
\* with the error's message for a caught error.  `after` is the table once
\* the DELETE statement has run.
deleteHandler(r, resource, table, notFound, done, failed, after) ==
  LET slug == req[r].slug
      rows == Matching(db[table], slug)
  IN /\ Routed(r, "DELETE", resource)
     /\ \/ /\ db' = [db EXCEPT ![table] = after]
           /\ IF rows = <<>>
              THEN /\ deleted' = deleted
                   /\ Returns(r, Response(404, "error", <<>>, notFound, <<>>), 1)
              ELSE /\ deleted' = [deleted EXCEPT ![table] = @ \cup {slug}]
                   /\ Returns(r, Response(201, "message", <<>>, done, slug), 1)
        \/ /\ UNCHANGED <<db, deleted>>
           /\ Returns(r, Response(500, "errorMessage", <<>>, failed, <<>>), 1)

\* Mutant of postPosts: a failed INSERT is issued a second time.
postPosts_retry(r) ==
  LET body == req[r].body
      slug == SlugOfTitle[body.title]
      after == InsertRow(db["posts"], slug, body.title, body.content)
  IN /\ Routed(r, "POST", "posts")
     /\ \/ /\ body.json # "object"
           /\ UNCHANGED <<db, deleted>>
           /\ Returns(r, NoResponse, 0)
        \/ /\ body.json = "object"
           /\ Len(db["posts"]) < MaxRows
           /\ db' = [db EXCEPT !["posts"] = after]
           /\ deleted' = [deleted EXCEPT !["posts"] = @ \ {slug}]
           /\ Returns(r, Response(201, "row", <<after[Len(after)]>>, "", <<>>), 1)
        \/ /\ body.json = "object"
           /\ UNCHANGED <<db, deleted>>
           /\ Returns(r, NoResponse, 2)

\* Mutant statement: an UPDATE that inserts the row when no row matches.
UpsertRows(t, title, content, slug) ==
  IF Matching(t, slug) = <<>>
  THEN InsertRow(t, slug, title, content)
  ELSE UpdateRows(t, title, content, slug)

\* Mutant of putPosts: an upsert instead of an update.
putPosts_upsert(r) ==
  updateHandler(r, "posts", "posts", "Post not found", "Failed to update post",
                UpsertRows(db["posts"], req[r].body.title, req[r].body.content,
                           req[r].slug))

\* Mutant statement: an UPDATE that also sets slug to the slug of the new title.
UpdateRowsReslug(t, title, content, slug) ==
  [i \in 1..Len(t) |->
     IF t[i].slug = slug
     THEN [slug |-> SlugOfTitle[title], title |-> title, content |-> content]
     ELSE t[i]]

\* Mutant of putPosts: the slug follows the title.
putPosts_reslug(r) ==
  updateHandler(r, "posts", "posts", "Post not found", "Failed to update post",
                UpdateRowsReslug(db["posts"], req[r].body.title,
                                 req[r].body.content, req[r].slug))

\* Mutant of putDrafts: the statement names the table posts.
putDrafts_wrongTable(r) ==
  updateHandler(r, "drafts", "posts", "Draft not found", "Failed to update draft",
                UpdateRows(db["posts"], req[r].body.title, req[r].body.content,
                           req[r].slug))

\* Mutant statement: a DELETE that removes only the oldest row of the slug.
DeleteFirstRow(t, slug) ==
  LET hits == {i \in 1..Len(t) : t[i].slug = slug}
      first == CHOOSE i \in hits : \A j \in hits : i <= j
  IN IF hits = {} THEN t
     ELSE SubSeq(t, 1, first - 1) \o SubSeq(t, first + 1, Len(t))

\* Mutant of deletePosts: only one row of the slug is deleted.
deletePosts_firstOnly(r) ==
  deleteHandler(r, "posts", "posts", "Post not found",
                "Post with slug <slug> deleted successfully",
                "Failed to delete post", DeleteFirstRow(db["posts"], req[r].slug))

\* The eight routes (lines 70-228).
getPosts(r) == listHandler(r, "posts", "posts")

postPosts(r) == createHandler(r, "posts", "posts")

putPosts(r) ==
  updateHandler(r, "posts", "posts", "Post not found", "Failed to update post",
                UpdateRows(db["posts"], req[r].body.title, req[r].body.content,
                           req[r].slug))

deletePosts(r) ==
  deleteHandler(r, "posts", "posts", "Post not found",
                "Post with slug <slug> deleted successfully",
                "Failed to delete post", DeleteRows(db["posts"], req[r].slug))

getDrafts(r) == listHandler(r, "drafts", "drafts")

postDrafts(r) == createHandler(r, "drafts", "drafts")

putDrafts(r) ==
  updateHandler(r, "drafts", "drafts", "Draft not found", "Failed to update draft",
                UpdateRows(db["drafts"], req[r].body.title, req[r].body.content,
                           req[r].slug))

deleteDrafts(r) ==
  deleteHandler(r, "drafts", "drafts", "Draft not found",
                "Draft with slug <slug> deleted successfully",
                "Failed to delete draft", DeleteRows(db["drafts"], req[r].slug))

\* A path no route matches: the middleware runs, next() reaches Hono's
\* not-found handler.
notFoundHandler(r) ==
  /\ pc[r] = "handler"
  /\ req[r].resource = "other"
  /\ UNCHANGED <<db, deleted>>
  /\ Returns(r, NotFound, 0)

\* One step of the task of a request in flight.
TaskStep(r) ==
  \/ getPosts(r)
  \/ postPosts(r)
  \/ putPosts(r)
  \/ deletePosts(r)
  \/ getDrafts(r)
  \/ postDrafts(r)
  \/ putDrafts(r)
  \/ deleteDrafts(r)
  \/ notFoundHandler(r)
  \/ middlewareRelease(r)

Next == \E r \in Tasks : middlewareAcquire(r) \/ TaskStep(r)

Spec == Init /\ [][Next]_vars

\* Node's event loop runs every task that can continue, and the database
\* answers every call: no task is suspended forever.
FairSpec ==
  /\ InitServer(MaxFairArrivals)
  /\ [][Next]_vars
  /\ \A r \in Tasks : WF_vars(TaskStep(r))

(***************************************************************************)
(* Claims about the server, checked under Spec (C1 under FairSpec).        *)
(***************************************************************************)
\* The task is not handling a request.
Finished(r) == pc[r] \in {"idle", "done"}

\* disconnectFromDB has been called on the task's connection.
Closed(r) == dbClient[r] \in {"ended", "endRejected"}

\* In this step the route handler of task r returns.
HandlerStep(r) == pc[r] = "handler" /\ pc'[r] = "release"

\* The handler's catch block ran: it returned c.status(500) or a 500.
Caught(response) == response = NoResponse \/ response.status = 500

Slugs(t) == [i \in 1..Len(t) |-> t[i].slug]

\* The client of a request whose connection closed without error gets the
\* Response its handler returned.
Delivered(r) ==
  pc[r] = "done" /\ dbClient[r] = "ended" /\ handlerRes[r] # NoResponse
    => res[r] = handlerRes[r]

\* C1: the connection a request acquired is eventually closed
\* (disconnectFromDB is called on it) whatever the handler's outcome, and no
\* connection is open once its request has finished.
C1_ConnectionReleased ==
  /\ \A r \in Tasks : (dbClient[r] = "open") ~> Closed(r)
  /\ [](\A r \in Tasks : Finished(r) => dbClient[r] # "open")

\* A request whose query error was caught and turned into a 500 has finished
\* with its connection closed.
C1_Witness ==
  \E r \in Tasks :
    /\ pc[r] = "done"
    /\ handlerRes[r] = NoResponse
    /\ queries[r] = 1
    /\ res[r].status = 500
    /\ dbClient[r] = "ended"

\* C2: when connectToDB fails for a request, no route handler runs and no SQL
\* statement is issued for it, the request ends with a 5xx response, and the
\* step in which a request arrives and connects (or fails to) changes nothing
\* of the other requests in flight nor of the tables.
C2_ConnectFailure ==
  /\ [](\A r \in Tasks :
          dbClient[r] = "connectRejected" =>
            /\ pc[r] = "done"
            /\ queries[r] = 0
            /\ handlerRes[r] = NoResponse
            /\ res[r].status \in 500..599)
  /\ [][arrivals' # arrivals =>
          /\ db' = db
          /\ \E r \in Tasks :
               /\ Finished(r)
               /\ \A o \in Tasks \ {r} :
                    /\ pc'[o] = pc[o]
                    /\ req'[o] = req[o]
                    /\ dbClient'[o] = dbClient[o]
                    /\ queries'[o] = queries[o]
                    /\ handlerRes'[o] = handlerRes[o]
                    /\ res'[o] = res[o]]_vars

\* A request whose connection failed has its 500 while another is in flight.
C2_Witness ==
  \E r \in Tasks :
    /\ dbClient[r] = "connectRejected"
    /\ res[r] = InternalServerError
    /\ \E o \in Tasks \ {r} : pc[o] = "release" /\ queries[o] = 1

\* C3: when client.end() rejects after the handler of one of the eight routes
\* returned a Response, the client still gets the handler's Response.
C3_ReleaseFailureNotMasking ==
  \A r \in Tasks :
    /\ pc[r] = "done"
    /\ req[r].resource \in Tables
    /\ dbClient[r] = "endRejected"
    /\ handlerRes[r] # NoResponse
    => res[r] = handlerRes[r]

\* C6: a PUT whose slug matches no row of its table leaves every row of both
\* tables unchanged and, when its statement completes, returns 404 with the
\* error "Post not found" (for drafts, "Draft not found"), which the client
\* gets once the connection is closed.
C6_UpdateMissing ==
  /\ [](\A r \in Tasks : req[r].method = "PUT" => Delivered(r))
  /\ [][\A r \in Tasks :
          /\ HandlerStep(r)
          /\ req[r].method = "PUT"
          /\ Matching(db[req[r].resource], req[r].slug) = <<>>
          => /\ db' = db
             /\ handlerRes'[r].status \in {404, 500}
             /\ ~Caught(handlerRes'[r]) =>
                  handlerRes'[r] =
                    Response(404, "error", <<>>,
                             IF req[r].resource = "posts"
                             THEN "Post not found" ELSE "Draft not found",
                             <<>>)]_vars

\* A PUT got 404 from a table that holds rows.
C6_Witness ==
  \E r \in Tasks :
    /\ req[r].method = "PUT"
    /\ handlerRes[r].status = 404
    /\ res[r].status = 404
    /\ db[req[r].resource] # <<>>
    /\ Matching(db[req[r].resource], req[r].slug) = <<>>

\* C7: the rows of a table change only in a step of the create, update or
\* delete handler of a request on that table's own resource: a request on
\* /api/posts leaves drafts unchanged and a request on /api/drafts leaves
\* posts unchanged.
C7_TablesIsolated ==
  [][\A tb \in Tables :
       db'[tb] # db[tb] =>
         \E r \in Tasks :
           /\ HandlerStep(r)
           /\ req[r].resource = tb
           /\ req[r].method \in {"POST", "PUT", "DELETE"}
           /\ \A other \in Tables \ {tb} : db'[other] = db[other]]_vars

\* Both tables hold a row of the same slug, and an update of the one in
\* posts has left the one in drafts as it was.
C7_Witness ==
  \E r \in Tasks :
    /\ req[r].method = "PUT"
    /\ req[r].resource = "posts"
    /\ handlerRes[r].status = 201
    /\ \E i \in 1..Len(db["posts"]), j \in 1..Len(db["drafts"]) :
         /\ db["posts"][i].slug = req[r].slug
         /\ db["drafts"][j].slug = req[r].slug
         /\ db["posts"][i].title = req[r].body.title
         /\ db["drafts"][j].title # req[r].body.title

\* C8: a DELETE of a slug its table holds removes every row of that slug and
\* returns 201 with the message naming the slug of the path; until a create
\* of that slug, the table and every list of it hold no row of that slug and
\* another DELETE of it returns 404; the client gets these responses once the
\* connection is closed.
C8_DeleteRemoves ==
  /\ [](\A tb \in Tables : \A s \in deleted[tb] : Matching(db[tb], s) = <<>>)
  /\ [](\A r \in Tasks : req[r].method \in {"DELETE", "GET"} => Delivered(r))
  /\ [][\A r \in Tasks :
          HandlerStep(r) /\ req[r].resource \in Tables /\ ~Caught(handlerRes'[r]) =>
            LET tb == req[r].resource
                s == req[r].slug
            IN /\ (req[r].method = "DELETE" /\ Matching(db[tb], s) # <<>>) =>
                    /\ Matching(db'[tb], s) = <<>>
                    /\ s \in deleted'[tb]
                    /\ handlerRes'[r] =
                         Response(201, "message", <<>>,
                                  IF tb = "posts"
                                  THEN "Post with slug <slug> deleted successfully"
                                  ELSE "Draft with slug <slug> deleted successfully",
                                  s)
               /\ (req[r].method = "DELETE" /\ s \in deleted[tb]) =>
                    handlerRes'[r].status = 404
               /\ req[r].method = "GET" =>
                    /\ handlerRes'[r].status = 200
                    /\ handlerRes'[r].rows = Reverse(db[tb])
                    /\ \A d \in deleted[tb] : Matching(handlerRes'[r].rows, d) = <<>>]_vars

\* A second DELETE of a deleted slug got 404.
C8_Witness ==
  \E r \in Tasks :
    /\ pc[r] = "done"
    /\ req[r].method = "DELETE"
    /\ req[r].slug \in deleted[req[r].resource]
    /\ res[r].status = 404

\* C9: a PUT neither adds nor removes a row nor changes a slug: it sets the
\* title and content of the rows whose slug is the path's and leaves the
\* others as they are; the slugs of a table change only by a create or a
\* delete on it.
C9_SlugImmutable ==
  [][/\ \A r \in Tasks :
          HandlerStep(r) /\ req[r].method = "PUT" /\ req[r].resource \in Tables =>
            LET before == db[req[r].resource]
                after == db'[req[r].resource]
            IN /\ Slugs(after) = Slugs(before)
               /\ \A i \in 1..Len(before) :
                    IF before[i].slug = req[r].slug /\ ~Caught(handlerRes'[r])
                    THEN /\ after[i].title = req[r].body.title
                         /\ after[i].content = req[r].body.content
                    ELSE after[i] = before[i]
     /\ \A tb \in Tables :
          Slugs(db'[tb]) # Slugs(db[tb]) =>
            \E r \in Tasks :
              /\ HandlerStep(r)
              /\ req[r].resource = tb
              /\ req[r].method \in {"POST", "DELETE"}]_vars

\* After a successful PUT a row's slug is not the slug of its title.
C9_Witness ==
  \E r \in Tasks :
    /\ req[r].method = "PUT"
    /\ handlerRes[r].status = 201
    /\ \E i \in 1..Len(db[req[r].resource]) :
         LET row == db[req[r].resource][i]
         IN /\ row.slug = req[r].slug
            /\ row.title = req[r].body.title
            /\ row.slug # SlugOfTitle[row.title]

\* The handler of one of the eight routes has returned for task r's request.
Handled(r) ==
  /\ pc[r] \in {"release", "done"}
  /\ dbClient[r] # "connectRejected"
  /\ req[r].resource \in Tables

ServerOff ==
  /\ db = [tb \in Tables |-> <<>>]
  /\ pc = [r \in Tasks |-> "idle"]
  /\ req = [r \in Tasks |-> NoRequest]
  /\ dbClient = [r \in Tasks |-> "none"]
  /\ queries = [r \in Tasks |-> 0]
  /\ handlerRes = [r \in Tasks |-> NoResponse]
  /\ res = [r \in Tasks |-> NoResponse]
  /\ arrivals = 0
  /\ limit = 0
  /\ deleted = [tb \in Tables |-> {}]

SlugInit ==
  /\ slugIn \in SlugInputs
  /\ slugOnce = <<>>
  /\ slugTwice = <<>>
  /\ slugStage = "in"
  /\ ServerOff

\* slugify applied to the input.
SlugApply ==
  /\ slugStage = "in"
  /\ slugOnce' = slugify(slugIn)
  /\ slugStage' = "once"
  /\ UNCHANGED <<slugIn, slugTwice, serverVars>>

\* slugify applied to its own result.
SlugApplyAgain ==
  /\ slugStage = "once"
  /\ slugTwice' = slugify(JSString(slugOnce))
  /\ slugStage' = "twice"
  /\ UNCHANGED <<slugIn, slugOnce, serverVars>>

SlugNext == SlugApply \/ SlugApplyAgain

SlugSpec == SlugInit /\ [][SlugNext]_vars

(***************************************************************************)
(* Claims about slugify, checked under SlugSpec.                           *)
(***************************************************************************)
\* C4: slugify is idempotent: for every input x, slugify(slugify(x)) equals
\* slugify(x), also when hyphens of an intermediate form are separated only
\* by removed non-word characters and when x normalises to the empty string.
C4_SlugifyIdempotent == slugStage = "twice" => slugTwice = slugOnce

\* The input "a-!-a": its hyphens meet once the "!" is removed.
C4_Witness ==
  /\ slugStage = "twice"
  /\ slugIn = JSString(<<"a", "-", "!", "-", "a">>)
  /\ slugTwice = <<"a", "-", "a">>

\* C5: the result of slugify holds only lower-case letters, digits,
\* underscores and hyphens, neither begins nor ends with a hyphen, holds no
\* two consecutive hyphens, and is the empty string for a falsy input.
C5_SlugifyShape ==
  slugStage \in {"once", "twice"} =>
    /\ \A i \in 1..Len(slugOnce) : slugOnce[i] \in {"a", "1", "_", "-"}
    /\ slugOnce # <<>> => slugOnce[1] # "-" /\ slugOnce[Len(slugOnce)] # "-"
    /\ \A i \in 1..(Len(slugOnce) - 1) : ~(slugOnce[i] = "-" /\ slugOnce[i + 1] = "-")
    /\ IsFalsy(slugIn) => slugOnce = <<>>
    /\ slugIn = JSString(<<"A", "-", "-", "a">>) => slugOnce = <<"a", "-", "a">>

\* The input "-A a-" gives "a-a".
C5_Witness ==
  /\ slugStage = "once"
  /\ slugIn = JSString(<<"-", "A", " ", "a", "-">>)
  /\ slugOnce = <<"a", "-", "a">>

====
